---- MODULE Spec2Model ----
(***************************************************************************)
(* Model of worker/tools/rate.py, the relative Elo rater: main() checks    *)
(* its inputs, drives the BayesElo backend, parses the ratings table out   *)
(* of the captured text, mean-centers the ratings, sorts the rows and      *)
(* prints a JSON payload (optionally reduced to one engine).               *)
(*                                                                         *)
(* Text is a sequence of one-character strings, a line is the same without *)
(* "\n".  Floats are exact rationals [n, d] in lowest terms.               *)
(***************************************************************************)
EXTENDS Integers, Sequences, FiniteSets, TLC

(***************************************************************************)
(* Bounds of the explored inputs                                           *)
(***************************************************************************)
MaxLines == 3       \* lines of a short backend output
MaxLongBody == 1    \* lines that follow the padding of a long backend output

(***************************************************************************)
(* Program constants                                                       *)
(***************************************************************************)
TailLines == 40     \* lines[-40:] in parse_ratings

(***************************************************************************)
(* Character classes of Python's re (restricted to ASCII)                  *)
(***************************************************************************)
NL == "\n"
Space == {" ", "\t"}
Digits == {"0", "1", "2", "3", "4", "5", "6", "7", "8", "9"}
Letters == {"a", "b", "c", "x", "y", "z", "N", "m", "e", "E", "l", "o"}
WordChars == Digits \cup Letters \cup {"_"}

DigitVal(c) ==
  CASE c = "0" -> 0 [] c = "1" -> 1 [] c = "2" -> 2 [] c = "3" -> 3
    [] c = "4" -> 4 [] c = "5" -> 5 [] c = "6" -> 6 [] c = "7" -> 7
    [] c = "8" -> 8 [] c = "9" -> 9

(***************************************************************************)
(* Exact rationals standing for Python floats                              *)
(***************************************************************************)
Abs(x) == IF x < 0 THEN -x ELSE x

RECURSIVE Gcd(_, _)
Gcd(a, b) == IF b = 0 THEN a ELSE Gcd(b, a % b)

Rat(n, d) ==
  LET g == Gcd(Abs(n), d)
  IN  [n |-> n \div g, d |-> d \div g]

Zero == Rat(0, 1)
RatAdd(a, b) == Rat(a.n * b.d + b.n * a.d, a.d * b.d)
RatSub(a, b) == Rat(a.n * b.d - b.n * a.d, a.d * b.d)
RatDivInt(a, k) == Rat(a.n, a.d * k)
RatLess(a, b) == a.n * b.d < b.n * a.d

RECURSIVE Pow10(_)
Pow10(k) == IF k = 0 THEN 1 ELSE 10 * Pow10(k - 1)

RECURSIVE DigitsVal(_)
DigitsVal(s) ==
  IF s = <<>> THEN 0
  ELSE 10 * DigitsVal(SubSeq(s, 1, Len(s) - 1)) + DigitVal(s[Len(s)])

RECURSIVE IndexOf(_, _, _)
IndexOf(s, c, i) ==
  IF i > Len(s) THEN 0 ELSE IF s[i] = c THEN i ELSE IndexOf(s, c, i + 1)

\* float(text) for a text matched by -?\d+(?:\.\d+)?
float(s) ==
  LET neg == s[1] = "-"
      body == IF neg THEN Tail(s) ELSE s
      dot == IndexOf(body, ".", 1)
      ip == IF dot = 0 THEN body ELSE SubSeq(body, 1, dot - 1)
      fp == IF dot = 0 THEN <<>> ELSE SubSeq(body, dot + 1, Len(body))
      mag == DigitsVal(ip \o fp)
  IN  Rat(IF neg THEN -mag ELSE mag, Pow10(Len(fp)))

(***************************************************************************)
(* str methods                                                             *)
(***************************************************************************)
RECURSIVE lstrip(_)
lstrip(s) ==
  IF s # <<>> /\ s[1] \in Space THEN lstrip(Tail(s)) ELSE s

RECURSIVE rstrip(_)
rstrip(s) ==
  IF s # <<>> /\ s[Len(s)] \in Space
  THEN rstrip(SubSeq(s, 1, Len(s) - 1)) ELSE s

strip(s) == lstrip(rstrip(s))

\* needle in s
Contains(s, needle) ==
  \E i \in 0..(Len(s) - Len(needle)) :
      SubSeq(s, i + 1, i + Len(needle)) = needle

\* text.splitlines(): a line ends at "\n"; no empty last line after a final "\n"
RECURSIVE splitlines(_)
splitlines(text) ==
  IF text = <<>> THEN <<>>
  ELSE LET k == IndexOf(text, NL, 1)
       IN  IF k = 0 THEN <<text>>
           ELSE <<SubSeq(text, 1, k - 1)>>
                  \o splitlines(SubSeq(text, k + 1, Len(text)))

(***************************************************************************)
(* Pieces of the three patterns.  A position p in 0..Len(ln) is the        *)
(* boundary after p characters.                                            *)
(***************************************************************************)
\* end of the longest run of \s starting at p
RECURSIVE WsRun(_, _)
WsRun(ln, p) ==
  IF p < Len(ln) /\ ln[p + 1] \in Space THEN WsRun(ln, p + 1) ELSE p

\* end of the longest run of \d starting at p
RECURSIVE DigitRun(_, _)
DigitRun(ln, p) ==
  IF p < Len(ln) /\ ln[p + 1] \in Digits THEN DigitRun(ln, p + 1) ELSE p

\* end of \d+(?:\.\d+)? taken greedily at p, -1 when \d+ fails
UNumEnd(ln, p) ==
  LET k == DigitRun(ln, p)
  IN  IF k = p THEN -1
      ELSE IF k < Len(ln) /\ ln[k + 1] = "." /\ DigitRun(ln, k + 1) > k + 1
           THEN DigitRun(ln, k + 1)
           ELSE k

\* end of -?\d+(?:\.\d+)? taken greedily at p, -1 when it fails
NumEnd(ln, p) ==
  IF p < Len(ln) /\ ln[p + 1] = "-" THEN UNumEnd(ln, p + 1) ELSE UNumEnd(ln, p)

\* \b at p, p being just after a digit
WordBoundary(ln, p) == p = Len(ln) \/ ln[p + 1] \notin WordChars

NoMatch == [ok |-> FALSE, name |-> <<>>, elo |-> Zero, err |-> Zero]

Cut(ln, a, b) == SubSeq(ln, a + 1, b)

\* a match whose group 1 is ln[q..p), groups 2 and 3 are ln[a..b) and ln[c..d):
\* name = m.group(1).strip(), elo = float(m.group(2)), err = float(m.group(3))
Groups(ln, q, p, a, b, c, d) ==
  [ok |-> TRUE, name |-> strip(Cut(ln, q, p)),
   elo |-> float(Cut(ln, a, b)), err |-> float(Cut(ln, c, d))]

\* (\d+(?:\.\d+)?)\b at c, d1 the end of \d+ and d2 the end with the fraction:
\* the fraction is given back when no \b follows it
ColsErr(ln, q, p, a, b, c, d1, d2) ==
  IF d2 # -1 /\ WordBoundary(ln, d2) THEN Groups(ln, q, p, a, b, c, d2)
  ELSE IF d1 > c /\ WordBoundary(ln, d1) THEN Groups(ln, q, p, a, b, c, d1)
  ELSE NoMatch

\* (\d+(?:\.\d+)?)\s*$ at c, d the end of the number
FbErr(ln, q, p, a, b, c, d) ==
  IF d # -1 /\ WsRun(ln, d) = Len(ln) THEN Groups(ln, q, p, a, b, c, d)
  ELSE NoMatch

\* \s+ after group 2 ending at c, then group 3 as pattern A or C wants it
TwoNums3(ln, q, p, a, b, c, anchored) ==
  IF c <= b THEN NoMatch
  ELSE IF anchored THEN FbErr(ln, q, p, a, b, c, UNumEnd(ln, c))
  ELSE ColsErr(ln, q, p, a, b, c, DigitRun(ln, c), UNumEnd(ln, c))

\* group 2 = ln[a..b)
TwoNums2(ln, q, p, a, b, anchored) ==
  IF b = -1 THEN NoMatch ELSE TwoNums3(ln, q, p, a, b, WsRun(ln, b), anchored)

\* \s+ after group 1 ending at a
TwoNums1(ln, q, p, a, anchored) ==
  IF a <= p THEN NoMatch ELSE TwoNums2(ln, q, p, a, NumEnd(ln, a), anchored)

\* \s+(-?\d+(?:\.\d+)?)\s+(\d+(?:\.\d+)?) after group 1 = ln[q..p), followed
\* by \b (pattern A) or by \s*$ (pattern C, anchored)
TwoNums(ln, q, p, anchored) == TwoNums1(ln, q, p, WsRun(ln, p), anchored)

\* \s*(\d+(?:\.\d+)?)\s*$ after +/-
Pm6(ln, q, p, b, c, e, f) ==
  IF f # -1 /\ WsRun(ln, f) = Len(ln) THEN Groups(ln, q, p, b, c, e, f)
  ELSE NoMatch

\* \s*\+/\- after group 2 = ln[b..c), d the end of \s*
Pm4(ln, q, p, b, c, d) ==
  IF d + 3 <= Len(ln) /\ Cut(ln, d, d + 3) = <<"+", "/", "-">>
  THEN Pm6(ln, q, p, b, c, WsRun(ln, d + 3), UNumEnd(ln, WsRun(ln, d + 3)))
  ELSE NoMatch

\* group 2 = ln[b..c)
Pm3(ln, q, p, b, c) ==
  IF c = -1 THEN NoMatch ELSE Pm4(ln, q, p, b, c, WsRun(ln, c))

\* : at a, then \s*
Pm1(ln, q, p, a) ==
  IF a < Len(ln) /\ ln[a + 1] = ":"
  THEN Pm3(ln, q, p, WsRun(ln, a + 1), NumEnd(ln, WsRun(ln, a + 1)))
  ELSE NoMatch

\* \s*:\s*(-?\d+(?:\.\d+)?)\s*\+/\-\s*(\d+(?:\.\d+)?)\s*$ after group 1 = ln[q..p)
PlusMinus(ln, q, p) == Pm1(ln, q, p, WsRun(ln, p))

\* the rest of pattern "A", "B" or "C" after group 1 = ln[q..p)
Rest(pat, ln, q, p) ==
  IF pat = "A" THEN TwoNums(ln, q, p, FALSE)
  ELSE IF pat = "B" THEN PlusMinus(ln, q, p)
  ELSE TwoNums(ln, q, p, TRUE)

(***************************************************************************)
(* The backtracking order around (.+?): what precedes group 1 is greedy,   *)
(* so the latest begin q of group 1 is tried first; group 1 is lazy, so    *)
(* its earliest end p is tried first.                                      *)
(***************************************************************************)
Max(S) == CHOOSE x \in S : \A y \in S : y <= x
Min(S) == CHOOSE x \in S : \A y \in S : x <= y

\* group 1 begins at q: its ends p, p + 1, ... are tried in turn
RECURSIVE LazyGroup(_, _, _, _)
LazyGroup(pat, ln, q, p) ==
  IF p > Len(ln) THEN NoMatch
  ELSE IF Rest(pat, ln, q, p).ok THEN Rest(pat, ln, q, p)
  ELSE LazyGroup(pat, ln, q, p + 1)

\* the begins q, q - 1, ..., lo of group 1 are tried in turn
RECURSIVE GreedyPrefix(_, _, _, _)
GreedyPrefix(pat, ln, lo, q) ==
  IF q < lo THEN NoMatch
  ELSE IF LazyGroup(pat, ln, q, q + 1).ok THEN LazyGroup(pat, ln, q, q + 1)
  ELSE GreedyPrefix(pat, ln, lo, q - 1)

\* ^\s*\d+\s+ with the rank in ln[r0..r1): group 1 begins inside the \s+
AfterRank(ln, r0, r1) ==
  IF r1 = r0 THEN NoMatch ELSE GreedyPrefix("A", ln, r1 + 1, WsRun(ln, r1))

\* Pattern A: columns with rank, name, elo, err
pat_cols(ln) == AfterRank(ln, WsRun(ln, 0), DigitRun(ln, WsRun(ln, 0)))

\* Pattern B: "Name : 1234 +/- 35"; ^\s* then group 1
pat_pm(ln) == GreedyPrefix("B", ln, 0, WsRun(ln, 0))

\* Fallback: "Name  Elo  Err"; ^\s* then group 1
pat_fb(ln) == GreedyPrefix("C", ln, 0, WsRun(ln, 0))

(***************************************************************************)
(* Backend outputs explored: the backend writes at most MaxLines lines of *)
(* the corpus, or TailLines padding lines followed by at most MaxLongBody  *)
(* corpus lines.                                                           *)
(***************************************************************************)
L_cols == <<"1", " ", "a", " ", "2", " ", "3">>  \* rule A: a 2 3 (rule C would give the name "1 a")
L_pm == <<" ", "b", ":", "2", "+", "/", "-", "1">>  \* rule B: b 2 1
L_fb == <<"a", " ", "-", "1", ".", "5", " ", "2">>  \* rule C: a -1.5 2
L_rank_only == <<"1", " ", " ", " ", "2", " ", "3">>  \* rule A with only whitespace where the name should be
L_ws == <<" ">>  \* whitespace only
L_junk == <<"x">>  \* matches no rule
L_hdr == <<"N", "a", "m", "e", " ", "E", "l", "o">>  \* header
L_hdr_row == <<"N", "a", "m", "e", " ", "E", "l", "o", " ", "1", " ", "2">>  \* contains both markers and matches rule C
L_name_row == <<"N", "a", "m", "e", " ", "3", " ", "1">>  \* contains one marker only and matches rule C
L_first == <<"y">>  \* first line of a long output, matches no rule

Corpus ==
  {L_cols, L_pm, L_fb, L_rank_only, L_ws, L_junk, L_hdr, L_hdr_row, L_name_row}

RECURSIVE JoinLines(_)
JoinLines(ls) ==
  IF ls = <<>> THEN <<>> ELSE Head(ls) \o <<NL>> \o JoinLines(Tail(ls))

Padding == <<L_first>> \o [i \in 1..(TailLines - 1) |-> L_junk]
Preambles == {<<>>, Padding}

NAME == <<"N", "a", "m", "e">>
ELO == <<"E", "l", "o">>
PGN == "runs/gauntlet.pgn"
None == [given |-> FALSE, name |-> <<>>]
Some(nm) == [given |-> TRUE, name |-> nm]
EngineNames == {None, Some(<<>>), Some(<<"a">>)}

(***************************************************************************)
(* parse_ratings                                                           *)
(***************************************************************************)
\* mutant of header_start_from: "or" in place of "and"
RECURSIVE header_start_from_or(_, _)
header_start_from_or(ls, i) ==
  IF i > Len(ls) THEN 0
  ELSE IF Contains(ls[i], NAME) \/ Contains(ls[i], ELO) THEN i
  ELSE header_start_from_or(ls, i + 1)

\* for i, ln in enumerate(lines): first line with both markers, start = i + 1
RECURSIVE header_start_from(_, _)
header_start_from(ls, i) ==
  IF i > Len(ls) THEN 0
  ELSE IF Contains(ls[i], NAME) /\ Contains(ls[i], ELO) THEN i
  ELSE header_start_from(ls, i + 1)

\* number of leading lines that lines[start:] drops
header_start(ls) == header_start_from(ls, 1)

\* mutant of first_match: the fallback pattern is tried first
first_match_fb_first(ln) ==
  IF pat_fb(ln).ok THEN pat_fb(ln)
  ELSE IF pat_cols(ln).ok THEN pat_cols(ln)
  ELSE pat_pm(ln)

\* m = pat_cols.match(ln) or pat_pm.match(ln) or pat_fb.match(ln)
first_match(ln) ==
  IF pat_cols(ln).ok THEN pat_cols(ln)
  ELSE IF pat_pm(ln).ok THEN pat_pm(ln)
  ELSE pat_fb(ln)

\* mutant of dict_set: ratings.setdefault(name, (elo, err))
dict_set_keep_first(r, name, elo, err) ==
  IF \E i \in DOMAIN r : r[i].name = name THEN r
  ELSE Append(r, [name |-> name, elo |-> elo, err |-> err])

\* ratings[name] = (elo, err): a dict keeps the position of an existing key
dict_set(r, name, elo, err) ==
  LET e == [name |-> name, elo |-> elo, err |-> err]
      hit == {i \in DOMAIN r : r[i].name = name}
  IN  IF hit = {} THEN Append(r, e)
      ELSE [i \in DOMAIN r |-> IF i \in hit THEN e ELSE r[i]]

\* if m: ... ratings[name] = (elo, err)
store_match(r, m) ==
  IF m.ok THEN dict_set(r, m.name, m.elo, m.err) ELSE r

\* if not ln.strip(): continue; m = ...
scan_stripped(r, ln) ==
  IF strip(ln) = <<>> THEN r ELSE store_match(r, first_match(ln))

\* body of the loop over lines[start:], ln = ln.rstrip() first
scan_line(r, raw_ln) == scan_stripped(r, rstrip(raw_ln))

\* mutant of last_lines: lines[:40]
last_lines_head(ls) ==
  SubSeq(ls, 1, IF Len(ls) > TailLines THEN TailLines ELSE Len(ls))

\* lines[-40:]
last_lines(ls) ==
  SubSeq(ls, IF Len(ls) > TailLines THEN Len(ls) - TailLines + 1 ELSE 1, Len(ls))

\* "\n".join(ls)
RECURSIVE join(_)
join(ls) ==
  IF ls = <<>> THEN <<>>
  ELSE IF Len(ls) = 1 THEN ls[1]
  ELSE ls[1] \o <<NL>> \o join(Tail(ls))

(***************************************************************************)
(* mean_center                                                             *)
(***************************************************************************)
RECURSIVE sum_elo(_)
sum_elo(r) == IF r = <<>> THEN Zero ELSE RatAdd(r[1].elo, sum_elo(Tail(r)))

\* mutant of mean_center: the mean is taken over the sigmas
RECURSIVE sum_err(_)
sum_err(r) == IF r = <<>> THEN Zero ELSE RatAdd(r[1].err, sum_err(Tail(r)))

mean_center_sigma(r) ==
  IF r = <<>> THEN r
  ELSE LET mean == RatDivInt(sum_err(r), Len(r))
       IN  [i \in DOMAIN r |-> [r[i] EXCEPT !.elo = RatSub(@, mean)]]

mean_center(r) ==
  IF r = <<>> THEN r
  ELSE LET mean == RatDivInt(sum_elo(r), Len(r))
       IN  [i \in DOMAIN r |-> [r[i] EXCEPT !.elo = RatSub(@, mean)]]

(***************************************************************************)
(* main: rows, payloads                                                    *)
(***************************************************************************)
\* mutant of insert_desc: e goes in front of the elements of equal key
RECURSIVE insert_desc_front(_, _)
insert_desc_front(s, e) ==
  IF s = <<>> THEN <<e>>
  ELSE IF ~RatLess(e.elo, s[1].elo) THEN <<e>> \o s
  ELSE <<s[1]>> \o insert_desc_front(Tail(s), e)

\* place e behind every element whose key is not smaller (stable, descending)
RECURSIVE insert_desc(_, _)
insert_desc(s, e) ==
  IF s = <<>> THEN <<e>>
  ELSE IF RatLess(s[1].elo, e.elo) THEN <<e>> \o s
  ELSE <<s[1]>> \o insert_desc(Tail(s), e)

\* sorted(rel.items(), key=lambda kv: kv[1][0], reverse=True)
RECURSIVE sorted_desc(_)
sorted_desc(r) ==
  IF r = <<>> THEN <<>>
  ELSE insert_desc(sorted_desc(SubSeq(r, 1, Len(r) - 1)), r[Len(r)])

\* rows.append({"name": name, "elo": elo, "sigma": sigma})
build_rows(r) ==
  LET s == sorted_desc(r)
  IN  [i \in DOMAIN s |-> [name |-> s[i].name, elo |-> s[i].elo, sigma |-> s[i].err]]

full_payload(pgn, rws) ==
  [version |-> "0", mode |-> "relative-only", pgn |-> pgn, ratings |-> rws,
   notes |-> "Relative Elo, mean-centered; not calibrated to any external scale."]

engine_payload(pgn, row) ==
  [version |-> "0", mode |-> "relative-only", pgn |-> pgn, engine |-> row,
   notes |-> "Relative Elo, mean-centered; not calibrated."]

\* mutant of find_row: next(..., rows[0]), the first row when nothing matches
find_row_default_first(rws, name) ==
  LET hit == {i \in DOMAIN rws : rws[i].name = name}
  IN  IF hit = {} THEN 1 ELSE Min(hit)

\* mutant of find_row: args.engine_name in r["name"]
find_row_substring(rws, name) ==
  LET hit == {i \in DOMAIN rws : Contains(rws[i].name, name)}
  IN  IF hit = {} THEN 0 ELSE Min(hit)

\* next((r for r in rows if r["name"] == args.engine_name), None): index or 0
find_row(rws, name) ==
  LET hit == {i \in DOMAIN rws : rws[i].name = name}
  IN  IF hit = {} THEN 0 ELSE Min(hit)

\* [r['name'] for r in rows]
row_names(rws) == [i \in DOMAIN rws |-> rws[i].name]

\* if args.engine_name: None and "" are both false
truthy(opt) == opt.given /\ opt.name # <<>>

(***************************************************************************)
(* State                                                                   *)
(***************************************************************************)
VARIABLES
  pc,         \* position in main
  args,       \* parsed command line: pgn, and engine_name from the point
              \* where main reads it
  fs,         \* file system as main sees it: pgn_isfile, bayeselo_ok
  proc,       \* the backend process: spawn outcome, lines it may still
              \* write, returncode
  raw_out,    \* captured output of the backend
  lines,      \* output.splitlines()
  start,      \* number of leading lines skipped
  idx,        \* line the loop of parse_ratings is at (1-based)
  ratings,    \* dict name -> (elo, err), in insertion order
  rel,        \* mean-centered ratings
  rows,       \* sorted rows of the payload
  stdout,     \* objects printed to standard output
  stderr,     \* messages printed to standard error
  exit_code   \* -1 while running

vars ==
  <<pc, args, fs, proc, raw_out, lines, start, idx, ratings, rel, rows,
    stdout, stderr, exit_code>>

Msg(kind, detail) == [kind |-> kind, detail |-> detail]

\* mutant of die: the message is printed but the exit status is 0
die_exit_zero(msg) ==
  /\ stderr' = Append(stderr, msg)
  /\ exit_code' = 0
  /\ pc' = "exit"
  /\ UNCHANGED stdout

\* print(msg, file=sys.stderr); sys.exit(code)
die(msg) ==
  /\ stderr' = Append(stderr, msg)
  /\ exit_code' = 1
  /\ pc' = "exit"
  /\ UNCHANGED stdout

Init ==
  /\ pc = "start"
  /\ args = [pgn |-> PGN, engine_name |-> None]
  /\ fs \in [pgn_isfile : BOOLEAN, bayeselo_ok : BOOLEAN]
  /\ proc = [spawn |-> "none", room |-> 0, returncode |-> 0]
  /\ raw_out = <<>>
  /\ lines = <<>>
  /\ start = 0
  /\ idx = 0
  /\ ratings = <<>>
  /\ rel = <<>>
  /\ rows = <<>>
  /\ stdout = <<>>
  /\ stderr = <<>>
  /\ exit_code = -1

\* main: the two input checks
main_check_inputs ==
  /\ pc = "start"
  /\ IF ~fs.pgn_isfile THEN die(Msg("PGN not found", <<>>))
     ELSE IF ~fs.bayeselo_ok THEN die(Msg("BayesElo not executable", <<>>))
     ELSE pc' = "run" /\ UNCHANGED <<stdout, stderr, exit_code>>
  /\ UNCHANGED <<args, fs, proc, raw_out, lines, start, idx, ratings, rel, rows>>

\* run_bayeselo: Popen
run_bayeselo_spawn ==
  /\ pc = "run"
  /\ \E spawn \in {"ok", "FileNotFoundError", "OSError"}, pre \in Preambles :
       /\ spawn # "ok" => pre = <<>>
       /\ proc' = [spawn |-> spawn, returncode |-> 0,
                   room |-> IF spawn # "ok" THEN 0
                            ELSE IF pre = <<>> THEN MaxLines ELSE MaxLongBody]
       /\ IF spawn = "FileNotFoundError"
          THEN die(Msg("BayesElo not found", <<>>)) /\ UNCHANGED raw_out
          ELSE IF spawn = "OSError"
          THEN \* not caught: traceback on stderr, exit status 1
               /\ stderr' = Append(stderr, Msg("Traceback", <<>>))
               /\ exit_code' = 1
               /\ pc' = "exit"
               /\ UNCHANGED <<stdout, raw_out>>
          ELSE /\ raw_out' = JoinLines(pre)
               /\ pc' = "communicate"
               /\ UNCHANGED <<stdout, stderr, exit_code>>
  /\ UNCHANGED <<args, fs, lines, start, idx, ratings, rel, rows>>

\* the backend writes one more line to the pipe read by communicate
backend_write ==
  /\ pc = "communicate"
  /\ proc.room > 0
  /\ \E ln \in Corpus : raw_out' = raw_out \o ln \o <<NL>>
  /\ proc' = [proc EXCEPT !.room = @ - 1]
  /\ UNCHANGED <<pc, args, fs, lines, start, idx, ratings, rel, rows,
                 stdout, stderr, exit_code>>

\* run_bayeselo: the backend exits, communicate returns, returncode is tested
run_bayeselo_wait ==
  /\ pc = "communicate"
  /\ \E rc \in {0, 1} :
       /\ proc' = [proc EXCEPT !.returncode = rc, !.room = 0]
       /\ IF rc # 0
          THEN die(Msg("BayesElo failed", raw_out))
          ELSE pc' = "parse" /\ UNCHANGED <<stdout, stderr, exit_code>>
  /\ UNCHANGED <<args, fs, raw_out, lines, start, idx, ratings, rel, rows>>

\* parse_ratings up to the loop: splitlines, header search
parse_ratings_begin ==
  /\ pc = "parse"
  /\ lines' = splitlines(raw_out)
  /\ start' = header_start(lines')
  /\ idx' = start' + 1
  /\ ratings' = <<>>
  /\ pc' = "scan"
  /\ UNCHANGED <<args, fs, proc, raw_out, rel, rows, stdout, stderr, exit_code>>

\* one iteration of for ln in lines[start:]
parse_ratings_scan ==
  /\ pc = "scan"
  /\ idx <= Len(lines)
  /\ ratings' = scan_line(ratings, lines[idx])
  /\ idx' = idx + 1
  /\ UNCHANGED <<pc, args, fs, proc, raw_out, lines, start, rel, rows,
                 stdout, stderr, exit_code>>

\* after the loop: die on an empty dict, else return it
parse_ratings_end ==
  /\ pc = "scan"
  /\ idx > Len(lines)
  /\ IF ratings = <<>>
     THEN die(Msg("Could not parse BayesElo ratings output", join(last_lines(lines))))
     ELSE pc' = "center" /\ UNCHANGED <<stdout, stderr, exit_code>>
  /\ UNCHANGED <<args, fs, proc, raw_out, lines, start, idx, ratings, rel, rows>>

\* rel = mean_center(raw)
main_mean_center ==
  /\ pc = "center"
  /\ rel' = mean_center(ratings)
  /\ pc' = "rows"
  /\ UNCHANGED <<args, fs, proc, raw_out, lines, start, idx, ratings, rows,
                 stdout, stderr, exit_code>>

\* the loop that fills rows
main_build_rows ==
  /\ pc = "rows"
  /\ rows' = build_rows(rel)
  /\ pc' = "emit"
  /\ UNCHANGED <<args, fs, proc, raw_out, lines, start, idx, ratings, rel,
                 stdout, stderr, exit_code>>

\* the payload and the optional filter on --engine-name; falling off main
\* exits with 0
main_emit ==
  /\ pc = "emit"
  /\ \E en \in EngineNames :
       /\ args' = [args EXCEPT !.engine_name = en]
       /\ IF truthy(en)
          THEN IF find_row(rows, en.name) = 0
               THEN die(Msg("engine not found among players", row_names(rows)))
               ELSE /\ stdout' = Append(stdout,
                                   engine_payload(args.pgn, rows[find_row(rows, en.name)]))
                    /\ exit_code' = 0
                    /\ pc' = "exit"
                    /\ UNCHANGED stderr
          ELSE /\ stdout' = Append(stdout, full_payload(args.pgn, rows))
               /\ exit_code' = 0
               /\ pc' = "exit"
               /\ UNCHANGED stderr
  /\ UNCHANGED <<fs, proc, raw_out, lines, start, idx, ratings, rel, rows>>

Next ==
  \/ main_check_inputs
  \/ run_bayeselo_spawn
  \/ backend_write
  \/ run_bayeselo_wait
  \/ parse_ratings_begin
  \/ parse_ratings_scan
  \/ parse_ratings_end
  \/ main_mean_center
  \/ main_build_rows
  \/ main_emit

Spec == Init /\ [][Next]_vars

TypeOK ==
  /\ pc \in {"start", "run", "communicate", "parse", "scan", "center", "rows", "emit", "exit"}
  /\ exit_code \in {-1, 0, 1}
  /\ Len(stdout) <= 1

(***************************************************************************)
(* Vocabulary of the properties, read off the captured text                *)
(***************************************************************************)
NonBlank(i) == strip(lines[i]) # <<>>

\* what each line yields if the loop reaches it (NoMatch for a skipped line)
TableOf(S) ==
  [i \in S |-> IF NonBlank(i) THEN first_match(rstrip(lines[i])) ELSE NoMatch]
Table == TableOf(DOMAIN lines)

Scanned == (start + 1)..Len(lines)
NameSet(r) == {r[k].name : k \in DOMAIN r}
Lines(t, S, name) == {i \in S : t[i].ok /\ t[i].name = name}
FirstLines(t) == [k \in DOMAIN rows |-> Min(Lines(t, Scanned, rows[k].name))]
LastLines(t) == [k \in DOMAIN rows |-> Max(Lines(t, Scanned, rows[k].name))]
HeaderLines == {i \in DOMAIN lines : Contains(lines[i], NAME) /\ Contains(lines[i], ELO)}
HdrIdx == IF HeaderLines = {} THEN 0 ELSE Min(HeaderLines)
LoopDone == pc = "scan" /\ idx > Len(lines)

InputsValid == fs.pgn_isfile /\ fs.bayeselo_ok
BackendOk == proc.spawn = "ok" /\ pc # "communicate" /\ proc.returncode = 0
Target == args.engine_name
RowRecognized(t) == \E i \in Scanned : t[i].ok
FilterOk(t) == ~truthy(Target) \/ Lines(t, Scanned, Target.name) # {}
Succeeded ==
  /\ InputsValid
  /\ BackendOk
  /\ \E t \in {Table} : RowRecognized(t) /\ FilterOk(t)

\* C1: a run that ends in any failure leaves standard output empty and exits
\* non-zero; a run prints (once) and exits 0 exactly when the input checks,
\* the backend, the parse and the optional filter lookup all succeeded.
C1_AllOrNothing ==
  /\ pc # "exit" => stdout = <<>> /\ exit_code = -1
  /\ pc = "exit" =>
       IF Succeeded
       THEN Len(stdout) = 1 /\ exit_code = 0 /\ stderr = <<>>
       ELSE stdout = <<>> /\ exit_code > 0 /\ stderr # <<>>

C1_Witness ==
  /\ pc = "exit"
  /\ InputsValid /\ BackendOk
  /\ \E t \in {Table} : RowRecognized(t) /\ ~FilterOk(t)
  /\ stdout = <<>> /\ exit_code = 1

NoLineMatches ==
  \A i \in Scanned :
     NonBlank(i) =>
        /\ ~pat_cols(rstrip(lines[i])).ok
        /\ ~pat_pm(rstrip(lines[i])).ok
        /\ ~pat_fb(rstrip(lines[i])).ok

Last40 ==
  LET n == Len(lines)
      k == IF n < 40 THEN n ELSE 40
  IN  [i \in 1..k |-> lines[n - k + i]]

\* C2: when no scanned line matches any of the three rules, parse_ratings
\* does not return: it dies with the parse diagnostic carrying the last 40
\* lines of the text (all of them when there are fewer); a table that is
\* returned is never empty.
C2_ParseFailure ==
  /\ pc \in {"center", "rows", "emit"} => ratings # <<>>
  /\ (pc = "exit" /\ BackendOk /\ NoLineMatches) =>
        /\ stderr = <<Msg("Could not parse BayesElo ratings output", join(Last40))>>
        /\ stdout = <<>>
        /\ exit_code = 1

C2_Witness ==
  /\ pc = "exit" /\ BackendOk /\ NoLineMatches
  /\ Len(lines) > 40
  /\ stderr # <<>>

\* C3: mean_center keeps the names (and uncertainties) and replaces every
\* rating by rating - m, m being the arithmetic mean of all ratings of the
\* table; the deltas sum to zero.
C3_MeanCentered ==
  rel # <<>> =>
    /\ Len(rel) = Len(ratings)
    /\ \A i \in DOMAIN rel :
          /\ rel[i].name = ratings[i].name
          /\ rel[i].err = ratings[i].err
          /\ LET m == RatSub(ratings[i].elo, rel[i].elo)
             IN  m.n * Len(ratings) * sum_elo(ratings).d = sum_elo(ratings).n * m.d
    /\ sum_elo(rel) = Zero

C3_Witness ==
  /\ Len(rel) >= 2
  /\ \E i \in DOMAIN rel : rel[i].elo.d > 1 /\ rel[i].elo # ratings[i].elo

\* C4: the rows built by main are the normalized records in descending order of delta;
\* rows of equal delta are in parse order, the order in which their names
\* first appeared in the scanned lines (also when a name was parsed again).
C4_SortedStable ==
  pc = "emit" =>
    /\ Len(rows) = Len(rel)
    /\ \A i \in DOMAIN rel : \E j \in DOMAIN rows :
          /\ rows[j].name = rel[i].name
          /\ rows[j].elo = rel[i].elo
          /\ rows[j].sigma = rel[i].err
    /\ \A t \in {Table} : \A first \in {FirstLines(t)} :
          \A i, j \in DOMAIN rows :
             i < j =>
               /\ ~RatLess(rows[i].elo, rows[j].elo)
               /\ rows[i].elo = rows[j].elo => first[i] < first[j]

C4_Witness ==
  /\ pc = "emit"
  /\ \E t \in {Table} : \E first \in {FirstLines(t)}, last \in {LastLines(t)} :
         \E i, j \in DOMAIN rows :
            /\ i < j
            /\ rows[i].elo = rows[j].elo
            /\ first[i] < last[i]
            /\ last[j] < last[i]

NotFoundMsg ==
  /\ Len(stderr) = 1
  /\ stderr[1].kind = "engine not found among players"
  /\ Len(stderr[1].detail) = Len(ratings)
  /\ {stderr[1].detail[k] : k \in DOMAIN stderr[1].detail} = NameSet(ratings)

\* C5 as stated: whenever a target name is supplied and no parsed row has
\* that name, the run dies listing exactly the parsed names.
C5_Original ==
  (pc = "exit" /\ rows # <<>> /\ Target.given /\ Target.name \notin NameSet(ratings))
     => NotFoundMsg /\ stdout = <<>> /\ exit_code = 1

\* C5: when a NON-EMPTY target name is supplied and no parsed row has exactly
\* that name, the run dies with the not-found diagnostic, which lists every
\* parsed name and no other.  An empty target name is treated as no filter:
\* the run does not fail.
C5_NotFound ==
  /\ (pc = "exit" /\ rows # <<>> /\ Target.given /\ Target.name # <<>>
        /\ Target.name \notin NameSet(ratings))
        => NotFoundMsg /\ stdout = <<>> /\ exit_code = 1
  /\ (pc = "exit" /\ rows # <<>> /\ Target.given /\ Target.name = <<>>)
        => stderr = <<>> /\ exit_code = 0

C5_Witness ==
  /\ pc = "exit" /\ Len(rows) >= 2
  /\ Target.given /\ Target.name # <<>> /\ Target.name \notin NameSet(ratings)
  /\ stderr # <<>>

IsTargetRow(row) ==
  /\ row.name = Target.name
  /\ \E i \in DOMAIN rel :
        /\ rel[i].name = Target.name
        /\ row.elo = rel[i].elo
        /\ row.sigma = rel[i].err

\* C6 as stated: a supplied target with a parsed row of that name prints a
\* reduced payload with that row and the version, mode, source path and
\* notes of the unfiltered payload of the run.
C6_Original ==
  (pc = "exit" /\ rows # <<>> /\ Target.given /\ Target.name \in NameSet(ratings))
     => /\ Len(stdout) = 1
        /\ DOMAIN stdout[1] = {"version", "mode", "pgn", "engine", "notes"}
        /\ IsTargetRow(stdout[1].engine)
        /\ stdout[1].version = full_payload(args.pgn, rows).version
        /\ stdout[1].mode = full_payload(args.pgn, rows).mode
        /\ stdout[1].pgn = full_payload(args.pgn, rows).pgn
        /\ stdout[1].notes = full_payload(args.pgn, rows).notes

\* C6: when a NON-EMPTY target name is supplied and a parsed row has exactly
\* that name, the printed payload is the reduced one: only that row (name,
\* delta, uncertainty as in the report), the version tag, mode tag and source
\* path of the unfiltered payload, and a notes field holding the SHORTER
\* disclaimer "Relative Elo, mean-centered; not calibrated.".  An empty
\* target name is treated as no filter: the unfiltered payload is printed.
C6_Reduced ==
  /\ (pc = "exit" /\ rows # <<>> /\ Target.given /\ Target.name # <<>>
        /\ Target.name \in NameSet(ratings))
        => /\ Len(stdout) = 1
           /\ DOMAIN stdout[1] = {"version", "mode", "pgn", "engine", "notes"}
           /\ IsTargetRow(stdout[1].engine)
           /\ stdout[1].version = full_payload(args.pgn, rows).version
           /\ stdout[1].mode = full_payload(args.pgn, rows).mode
           /\ stdout[1].pgn = full_payload(args.pgn, rows).pgn
           /\ stdout[1].notes = "Relative Elo, mean-centered; not calibrated."
           /\ stdout[1].notes # full_payload(args.pgn, rows).notes
  /\ (pc = "exit" /\ rows # <<>> /\ Target.given /\ Target.name = <<>>)
        => stdout = <<full_payload(args.pgn, rows)>>

C6_Witness ==
  /\ pc = "exit" /\ Len(rows) >= 2
  /\ Target.given /\ Target.name # <<>>
  /\ Len(stdout) = 1
  /\ rows[1].name # Target.name

\* C7: at every point of the scan the table holds exactly one record per
\* name extracted so far, with the rating and uncertainty of the last
\* scanned line that produced the name.
C7_LastWriteWins ==
  pc = "scan" =>
    \A t \in {TableOf((start + 1)..(idx - 1))} : \A done \in {{i \in DOMAIN t : t[i].ok}} :
        /\ NameSet(ratings) = {t[i].name : i \in done}
        /\ \A k, l \in DOMAIN ratings : ratings[k].name = ratings[l].name => k = l
        /\ \A k \in DOMAIN ratings :
              \E i \in done :
                 /\ t[i].name = ratings[k].name
                 /\ \A j \in done : t[j].name = ratings[k].name => j <= i
                 /\ ratings[k].elo = t[i].elo
                 /\ ratings[k].err = t[i].err

C7_Witness ==
  /\ LoopDone
  /\ \E t \in {Table} : \E done \in {{i \in Scanned : t[i].ok}} :
         \E i, j \in done :
            /\ i < j
            /\ t[i].name = t[j].name
            /\ t[i].elo # t[j].elo
            /\ \A k \in done : t[k].name = t[i].name => k <= j

\* C8: every record of the table has a non-empty name and an uncertainty
\* that is not negative.
C8_RecordInvariants ==
  \A k \in DOMAIN ratings : ratings[k].name # <<>> /\ ratings[k].err.n >= 0

Stored(r, r2, m) ==
  /\ \E k \in DOMAIN r2 : r2[k] = [name |-> m.name, elo |-> m.elo, err |-> m.err]
  /\ \A k \in DOMAIN r : r[k].name # m.name => r2[k] = r[k]
  /\ Len(r2) = IF m.name \in NameSet(r) THEN Len(r) ELSE Len(r) + 1

C9_Step ==
  (pc = "scan" /\ idx' = idx + 1 /\ NonBlank(idx)) =>
     LET ln == rstrip(lines[idx])
     IN  IF pat_cols(ln).ok THEN Stored(ratings, ratings', pat_cols(ln))
         ELSE IF pat_pm(ln).ok THEN Stored(ratings, ratings', pat_pm(ln))
         ELSE IF pat_fb(ln).ok THEN Stored(ratings, ratings', pat_fb(ln))
         ELSE ratings' = ratings

\* C9: an iteration on a non-blank line stores the extraction of the first
\* of the rules A, B, C that matches (and touches nothing else); when no
\* rule matches the table is unchanged.
C9_FirstMatchWins == [][C9_Step]_vars

C9_Witness ==
  /\ pc = "scan" /\ idx > start + 1
  /\ LET ln == rstrip(lines[idx - 1])
     IN  /\ pat_cols(ln).ok /\ pat_fb(ln).ok
         /\ pat_cols(ln).name # pat_fb(ln).name
         /\ pat_cols(ln).name \in NameSet(ratings)
         /\ pat_fb(ln).name \notin NameSet(ratings)

\* C10 as stated: extraction runs over every non-blank line from the first
\* line holding both markers on (that line included), or over every line
\* when there is none.
C10_Original ==
  LoopDone =>
    \A t \in {Table} :
        NameSet(ratings) =
          {t[i].name :
             i \in {j \in (IF HdrIdx = 0 THEN 1 ELSE HdrIdx)..Len(lines) : t[j].ok}}

\* C10 (LoopDone: the loop of parse_ratings has ended, the table is final):
\* the header is the first line holding both "Name" and "Elo";
\* extraction is attempted on every non-blank line AFTER the header (the
\* header line itself is skipped), or on every non-blank line when there is
\* no header; the header and the lines before it are never extracted.
C10_HeaderStart ==
  /\ pc = "scan" => idx > HdrIdx /\ start = HdrIdx
  /\ LoopDone =>
       \A t \in {Table} :
           NameSet(ratings) =
             {t[i].name : i \in {j \in (HdrIdx + 1)..Len(lines) : t[j].ok}}

C10_Witness ==
  /\ LoopDone /\ HdrIdx > 1 /\ ratings # <<>>
  /\ \E t \in {Table} :
         \E i \in 1..(HdrIdx - 1) : t[i].ok /\ t[i].name \notin NameSet(ratings)

====
